---- MODULE Spec2Model ----
(***************************************************************************)
(* Scene graph, hit testing, two-pass rendering and the frame loop of      *)
(* main.py.                                                                *)
(*                                                                         *)
(* A float is modelled by an exact rational <<numerator, denominator>>     *)
(* with a positive denominator.  Points, sizes and viewports are pairs of  *)
(* integers.  A Shape object is a record; a reference to a Shape is its    *)
(* index in all_shapes (0 stands for "no shape").  None, the absent click  *)
(* position, is the empty tuple, which is falsy as None is.                *)
(***************************************************************************)
EXTENDS Integers, Sequences, FiniteSets

VARIABLES
    all_shapes,       \* SceneManager.all_shapes: Shape records, registration order
    root_shapes,      \* SceneManager.root_shapes: indices of parentless shapes
    width, height,    \* the viewport globals
    running,          \* the loop flag
    mouse_pos,        \* pointer position sampled for the frame
    mouse_click_pos,  \* click position of the frame, or None
    pc,               \* position of the program
    polled,           \* events handled so far in the current frame
    pressed,          \* history: positions of the primary presses polled this frame
    calls,            \* Shape.draw / draw_highlighted calls of the last SceneManager.draw
    hovered_shape,    \* hovered_shape of the last SceneManager.draw (0: None)
    clicked,          \* handle_click notifications of the last SceneManager.draw
    error,            \* exception raised by the last operation ("none": it returned)
    args,             \* arguments of a single function application
    ret               \* its result

vars == <<all_shapes, root_shapes, width, height, running, mouse_pos,
          mouse_click_pos, pc, polled, pressed, calls, hovered_shape,
          clicked, error, args, ret>>

None == <<>>

(***************************************************************************)
(* Bounds of the model.                                                    *)
(***************************************************************************)
MaxShapes == 3    \* shapes a built scene holds
MaxChain == 3     \* shapes of a scene built for geometry resolution
MaxEvents == 2    \* events handled in one frame
MaxSide == 3      \* largest side of a hit-tested box

(***************************************************************************)
(* Arithmetic.                                                             *)
(***************************************************************************)
Min(a, b) == IF a <= b THEN a ELSE b

\* k * r for an integer k and a float r
Times(k, r) == <<k * r[1], r[2]>>

\* a mutant of int: rounds toward minus infinity
int_floor(r) == r[1] \div r[2]

\* Python's int() of a float: the fraction is discarded (rounds toward zero)
int(r) == IF r[1] >= 0 THEN r[1] \div r[2] ELSE -((-r[1]) \div r[2])

\* float arithmetic of create_safe
RMul(a, b) == <<a[1] * b[1], a[2] * b[2]>>
RAdd(a, b) == <<a[1] * b[2] + b[1] * a[2], a[2] * b[2]>>
RNeg(a) == <<-a[1], a[2]>>

(***************************************************************************)
(* Shape.                                                                  *)
(***************************************************************************)
Shape(shape_type, size, rel_pos, parent, interactable, has_border, z_order) ==
    [shape_type |-> shape_type, size |-> size, rel_pos |-> rel_pos,
     parent |-> parent, interactable |-> interactable,
     has_border |-> has_border, z_order |-> z_order]

get_pixel_size(s, root_size) ==
    LET base == Min(root_size[1], root_size[2])
    IN  <<int(Times(base, s.size)), int(Times(base, s.size))>>

RECURSIVE get_absolute_position(_, _, _)
get_absolute_position(shapes, i, root_size) ==
    LET s == shapes[i]
    IN  IF s.parent # 0
        THEN LET parent_pos == get_absolute_position(shapes, s.parent, root_size)
                 parent_size == get_pixel_size(shapes[s.parent], root_size)
             IN  <<parent_pos[1] + int(Times(parent_size[1], s.rel_pos[1])),
                   parent_pos[2] + int(Times(parent_size[2], s.rel_pos[2]))>>
        ELSE <<int(Times(root_size[1], s.rel_pos[1])),
               int(Times(root_size[2], s.rel_pos[2]))>>

Rect(left, top, w, h) == [left |-> left, top |-> top, w |-> w, h |-> h]

\* a mutant of collidepoint: the right and bottom edges count as inside
collidepoint_closed(rect, p) ==
    /\ rect.left <= p[1] /\ p[1] <= rect.left + rect.w
    /\ rect.top <= p[2] /\ p[2] <= rect.top + rect.h

\* pygame.Rect.collidepoint: a point on the right or bottom edge is outside
collidepoint(rect, p) ==
    /\ rect.left <= p[1] /\ p[1] < rect.left + rect.w
    /\ rect.top <= p[2] /\ p[2] < rect.top + rect.h

check_interaction(s, screen_pos, size, mpos) ==
    LET rect == Rect(screen_pos[1] - (size[1] \div 2),
                     screen_pos[2] - (size[2] \div 2), size[1], size[2])
    IN  IF s.shape_type = "square"
        THEN collidepoint(rect, mpos)
        ELSE IF s.shape_type = "circle"
        THEN LET radius == size[1] \div 2
                 dx == mpos[1] - screen_pos[1]
                 dy == mpos[2] - screen_pos[2]
             IN  dx * dx + dy * dy <= radius * radius
        ELSE FALSE

\* the primitives _draw_shape hands to pygame.draw
draw_shape(s) ==
    IF s.shape_type = "square" THEN <<"fillRect">>
    ELSE IF s.shape_type = "circle" THEN <<"fillCircle">>
    ELSE <<>>

\* the primitives _draw_border hands to pygame.draw
draw_border(s) ==
    IF s.shape_type = "square" THEN <<"strokeRect">>
    ELSE IF s.shape_type = "circle" THEN <<"strokeCircle">>
    ELSE <<>>

\* Shape.draw (highlighted = FALSE) and Shape.draw_highlighted (TRUE): one
\* call record with the primitives the call emits
Shape_draw(shapes, i, highlighted, pass) ==
    [shape |-> i, highlighted |-> highlighted, pass |-> pass,
     prims |-> draw_shape(shapes[i])
               \o (IF shapes[i].has_border THEN draw_border(shapes[i]) ELSE <<>>)]

(***************************************************************************)
(* SceneManager.                                                           *)
(***************************************************************************)
\* sorted(range, key): the stable ascending sort, as the sequence of the
\* indices of keys
sorted(keys) ==
    LET n == Len(keys)
        rank(i) == Cardinality({j \in 1..n :
                        keys[j] < keys[i] \/ (keys[j] = keys[i] /\ j < i)}) + 1
    IN  [k \in 1..n |-> CHOOSE i \in 1..n : rank(i) = k]

hit(shapes, i, p, root_size) ==
    check_interaction(shapes[i], get_absolute_position(shapes, i, root_size),
                      get_pixel_size(shapes[i], root_size), p)

\* a mutant of get_shape_at: ascending sort, no interactable filter
get_shape_at_lowest(shapes, mpos, root_size) ==
    LET order == sorted([i \in 1..Len(shapes) |-> shapes[i].z_order])
        under == SelectSeq(order, LAMBDA i : hit(shapes, i, mpos, root_size))
    IN  IF under # <<>> THEN under[1] ELSE 0

get_shape_at(shapes, mpos, root_size) ==
    LET order == sorted([i \in 1..Len(shapes) |-> -shapes[i].z_order])
        shapes_under_mouse ==
            SelectSeq(order, LAMBDA i : shapes[i].interactable
                                        /\ hit(shapes, i, mpos, root_size))
    IN  IF shapes_under_mouse # <<>> THEN shapes_under_mouse[1] ELSE 0

\* a mutant of base_pass: registration order, no sort
base_pass_unsorted(shapes) ==
    [k \in 1..Len(shapes) |-> Shape_draw(shapes, k, FALSE, "base")]

\* first pass of SceneManager.draw
base_pass(shapes) ==
    LET order == sorted([i \in 1..Len(shapes) |-> shapes[i].z_order])
    IN  [k \in 1..Len(shapes) |-> Shape_draw(shapes, order[k], FALSE, "base")]

\* a mutant of hover_pass: redraws the shapes at the hovered z_order too
hover_pass_geq(shapes, hovered) ==
    IF hovered # 0
    THEN LET hover_z == shapes[hovered].z_order
             order == sorted([i \in 1..Len(shapes) |-> shapes[i].z_order])
             above == SelectSeq(order, LAMBDA i : shapes[i].z_order >= hover_z)
         IN  <<Shape_draw(shapes, hovered, TRUE, "hover")>>
             \o [k \in 1..Len(above) |-> Shape_draw(shapes, above[k], FALSE, "hover")]
    ELSE <<>>

\* second pass of SceneManager.draw: the highlight and the redraws
hover_pass(shapes, hovered) ==
    IF hovered # 0
    THEN LET hover_z == shapes[hovered].z_order
             order == sorted([i \in 1..Len(shapes) |-> shapes[i].z_order])
             above == SelectSeq(order, LAMBDA i : shapes[i].z_order > hover_z)
         IN  <<Shape_draw(shapes, hovered, TRUE, "hover")>>
             \o [k \in 1..Len(above) |-> Shape_draw(shapes, above[k], FALSE, "hover")]
    ELSE <<>>

\* a mutant of click_pass: no hit test at the click position
click_pass_any(shapes, hovered, root_size, click) ==
    IF hovered # 0 /\ click # None THEN <<hovered>> ELSE <<>>

\* the click handling of SceneManager.draw: the handle_click calls
click_pass(shapes, hovered, root_size, click) ==
    IF hovered # 0
    THEN IF click # None /\ hit(shapes, hovered, click, root_size)
         THEN <<hovered>>
         ELSE <<>>
    ELSE <<>>

\* SceneManager.draw
SceneManager_draw(shapes, root_size, mpos, click) ==
    LET hovered == get_shape_at(shapes, mpos, root_size)
    IN  [calls |-> base_pass(shapes) \o hover_pass(shapes, hovered),
         hovered |-> hovered,
         clicked |-> click_pass(shapes, hovered, root_size, click),
         error |-> "none"]

\* Shape(...) followed by SceneManager.add_shape
add_shape(scene, shape) ==
    [root_shapes |-> IF shape.parent = 0
                     THEN Append(scene.root_shapes, Len(scene.all_shapes) + 1)
                     ELSE scene.root_shapes,
     all_shapes |-> Append(scene.all_shapes, shape)]

SceneManager == [root_shapes |-> <<>>, all_shapes |-> <<>>]

(***************************************************************************)
(* A scene builder followed by one SceneManager.draw call.                 *)
(***************************************************************************)
ZOrders == {0, 10, 20}

\* constructor arguments of the built shapes; a child's parent is the shape
\* created last
SceneGeometry ==
    { [shape_type |-> "square", size |-> <<1, 2>>,
       rel_pos |-> <<(<<1, 2>>), (<<1, 2>>)>>, child |-> FALSE],
      [shape_type |-> "circle", size |-> <<1, 4>>,
       rel_pos |-> <<(<<-1, 2>>), (<<0, 1>>)>>, child |-> TRUE] }

AnyGeometry ==
    SceneGeometry \cup
    { [shape_type |-> "triangle", size |-> <<1, 2>>,
       rel_pos |-> <<(<<1, 2>>), (<<1, 2>>)>>, child |-> FALSE] }

SceneViewports == {<<8, 8>>, <<8, 12>>}
ScenePoints == {<<2, 4>>, <<5, 5>>, <<1, 4>>}

Idle ==
    /\ width = 8 /\ height = 8 /\ running = TRUE
    /\ mouse_pos = <<0, 0>> /\ mouse_click_pos = None
    /\ polled = 0 /\ pressed = <<>>
    /\ calls = <<>> /\ hovered_shape = 0 /\ clicked = <<>>
    /\ error = "none" /\ args = <<>> /\ ret = <<>>

Init ==
    /\ all_shapes = <<>> /\ root_shapes = <<>>
    /\ pc = "setup"
    /\ Idle

AddShapeFrom(geometry, max) ==
    /\ pc = "setup"
    /\ Len(all_shapes) < max
    /\ \E g \in geometry, interactable \in BOOLEAN, z_order \in ZOrders :
         /\ g.child => all_shapes # <<>>
         /\ LET parent == IF g.child THEN Len(all_shapes) ELSE 0
                scene == add_shape([root_shapes |-> root_shapes,
                                    all_shapes |-> all_shapes],
                                   Shape(g.shape_type, g.size, g.rel_pos, parent,
                                         interactable, TRUE, z_order))
            IN  /\ all_shapes' = scene.all_shapes
                /\ root_shapes' = scene.root_shapes
    /\ UNCHANGED <<width, height, running, mouse_pos, mouse_click_pos, pc, polled,
                   pressed, calls, hovered_shape, clicked, error, args, ret>>

AddShape == AddShapeFrom(SceneGeometry, MaxShapes)

Draw ==
    /\ pc = "setup"
    /\ \E root_size \in SceneViewports, mpos \in ScenePoints,
          click \in ScenePoints \cup {None} :
         LET d == SceneManager_draw(all_shapes, root_size, mpos, click)
         IN  /\ width' = root_size[1] /\ height' = root_size[2]
             /\ mouse_pos' = mpos /\ mouse_click_pos' = click
             /\ calls' = d.calls
             /\ hovered_shape' = d.hovered
             /\ clicked' = d.clicked
             /\ error' = d.error
    /\ pc' = "drawn"
    /\ UNCHANGED <<all_shapes, root_shapes, running, polled, pressed, args, ret>>

Next == AddShape \/ Draw

Spec == Init /\ [][Next]_vars

(***************************************************************************)
(* Properties of one SceneManager.draw call.                               *)
(***************************************************************************)
Registered == 1..Len(all_shapes)
root_size_now == <<width, height>>
ZOf(i) == all_shapes[i].z_order
BaseCalls == SelectSeq(calls, LAMBDA c : c.pass = "base")
HoverCalls == SelectSeq(calls, LAMBDA c : c.pass = "hover")
NonDecreasingZ(cs) ==
    \A k, l \in DOMAIN cs : k < l => ZOf(cs[k].shape) <= ZOf(cs[l].shape)
\* the interactable registered nodes whose hit test is true at p
HitAt(p) ==
    {i \in Registered : all_shapes[i].interactable
                        /\ hit(all_shapes, i, p, root_size_now)}
\* i has the greatest z_order of the set S and is the first registered of
\* those that have it
TopmostOf(i, S) ==
    /\ i \in S
    /\ \A j \in S : ZOf(j) < ZOf(i) \/ (ZOf(j) = ZOf(i) /\ i <= j)

\* C1: the base pass draws every registered node exactly once, not
\* highlighted, in non-decreasing z_order, and every base-pass draw
\* precedes every hover-pass draw of the frame.
C1_BasePass ==
    pc = "drawn" =>
        /\ Len(BaseCalls) = Len(all_shapes)
        /\ \A i \in Registered :
             Cardinality({k \in DOMAIN BaseCalls :
                 BaseCalls[k].shape = i /\ ~BaseCalls[k].highlighted
                 /\ BaseCalls[k].prims # <<>>}) = 1
        /\ NonDecreasingZ(BaseCalls)
        /\ \A k, l \in DOMAIN calls :
             calls[k].pass = "base" /\ calls[l].pass = "hover" => k < l

C1_Witness ==
    /\ pc = "drawn"
    /\ Len(all_shapes) = 3
    /\ ZOf(1) > ZOf(2) /\ ZOf(2) > ZOf(3)
    /\ all_shapes[2].parent = 1 /\ all_shapes[3].parent = 2
    /\ HoverCalls # <<>>

\* C2: get_shape_at returns the interactable hit node of greatest z_order,
\* the first registered among equals, and no node when no interactable node
\* is hit.
C2_Topmost ==
    pc = "drawn" =>
        IF HitAt(mouse_pos) = {}
        THEN hovered_shape = 0
        ELSE TopmostOf(hovered_shape, HitAt(mouse_pos))

C2_Witness ==
    /\ pc = "drawn"
    /\ hovered_shape # 0
    /\ hovered_shape > 1
    /\ \E j \in HitAt(mouse_pos) : j > hovered_shape /\ ZOf(j) = ZOf(hovered_shape)
    /\ \E j \in Registered :
         /\ ~all_shapes[j].interactable
         /\ hit(all_shapes, j, mouse_pos, root_size_now)
         /\ ZOf(j) > ZOf(hovered_shape)

\* C3: with a hovered node the hover pass is one highlighted draw of it, then
\* one normal draw of each node of strictly greater z_order, in
\* non-decreasing z_order, and nothing else; with no hovered node it emits
\* no draw and no notification.
C3_HoverPass ==
    pc = "drawn" =>
        IF hovered_shape = 0
        THEN HoverCalls = <<>> /\ clicked = <<>>
        ELSE LET above == {i \in Registered : ZOf(i) > ZOf(hovered_shape)}
                 redraws == Tail(HoverCalls)
             IN  /\ HoverCalls # <<>>
                 /\ HoverCalls[1].shape = hovered_shape
                 /\ HoverCalls[1].highlighted
                 /\ Len(redraws) = Cardinality(above)
                 /\ \A i \in above :
                      \E k \in DOMAIN redraws :
                          redraws[k].shape = i /\ ~redraws[k].highlighted
                 /\ NonDecreasingZ(redraws)

C3_Witness ==
    /\ pc = "drawn"
    /\ hovered_shape = 3
    /\ Len(HoverCalls) = 3
    /\ ZOf(1) > ZOf(2)

\* the position in the frame of the last paint of node i
LastPaint(i) ==
    CHOOSE k \in DOMAIN calls :
        /\ calls[k].shape = i
        /\ \A l \in DOMAIN calls : calls[l].shape = i => l <= k
BasePaint(i) == CHOOSE k \in DOMAIN BaseCalls : BaseCalls[k].shape = i

\* C4: after a draw with a hovered node the final paints of the nodes are in
\* the base-pass paint order, also when nodes share a z_order.
C4_LayeringKept ==
    (pc = "drawn" /\ hovered_shape # 0) =>
        \A a, b \in Registered :
            BasePaint(a) < BasePaint(b) => LastPaint(a) < LastPaint(b)

\* C5: a draw call notifies at most once; it notifies the hovered node
\* exactly when there is one, a click position is supplied and the hovered
\* node is hit at the click position; a click outside every interactable
\* hit region notifies nobody.
C5_OneNotification ==
    pc = "drawn" =>
        /\ Len(clicked) <= 1
        /\ (clicked # <<>>) <=>
              /\ hovered_shape # 0
              /\ mouse_click_pos # None
              /\ hit(all_shapes, hovered_shape, mouse_click_pos, root_size_now)
        /\ clicked # <<>> => clicked[1] = hovered_shape
        /\ (mouse_click_pos # None /\ HitAt(mouse_click_pos) = {}) => clicked = <<>>

C5_Witness ==
    /\ pc = "drawn"
    /\ clicked = <<hovered_shape>>
    /\ mouse_click_pos # mouse_pos
    /\ Len(all_shapes) >= 2

\* C10: a notified node is the topmost interactable node at the click
\* position.
C10_NotifiedIsTopmostAtClick ==
    (pc = "drawn" /\ clicked # <<>>) =>
        TopmostOf(clicked[1], HitAt(mouse_click_pos))

(***************************************************************************)
(* Shapes of any kind: the builder is not restricted to squares and        *)
(* circles.                                                                *)
(***************************************************************************)
AddAnyShape == AddShapeFrom(AnyGeometry, MaxShapes)

NextKind == AddAnyShape \/ Draw

SpecKind == Init /\ [][NextKind]_vars

\* C9: drawing or hit-testing a node that is neither a square nor a circle
\* fails with InvalidShapeKind.
C9_InvalidKindFails ==
    (pc = "drawn" /\ \E i \in Registered :
                        all_shapes[i].shape_type \notin {"square", "circle"})
        => error = "InvalidShapeKind"

(***************************************************************************)
(* The main program: create_safe(False, 1.0), then the frame loop.         *)
(***************************************************************************)
create_safe(open, sizeMult) ==
    LET safe_size == RMul(<<7, 10>>, sizeMult)
        zero == RMul(<<0, 1>>, safe_size)
        s1 == add_shape(SceneManager,
                  Shape("square", safe_size, <<(<<1, 2>>), (<<1, 2>>)>>, 0,
                        FALSE, TRUE, 0))
        s2 == add_shape(s1,
                  Shape("square", <<1, 2>>, <<zero, zero>>, 1, TRUE, TRUE, 10))
        screw_size == RMul(<<1, 10>>, sizeMult)
        screw_position == RAdd(RMul(<<1, 2>>, safe_size), RMul(<<1, 2>>, screw_size))
        screw(pos) == Shape("circle", screw_size, pos, 1, TRUE, TRUE, 20)
        s3 == add_shape(s2, screw(<<RNeg(screw_position), RNeg(screw_position)>>))
        s4 == add_shape(s3, screw(<<screw_position, RNeg(screw_position)>>))
        s5 == add_shape(s4, screw(<<RNeg(screw_position), screw_position>>))
        s6 == add_shape(s5, screw(<<screw_position, screw_position>>))
        dial_size == RMul(<<3, 10>>, sizeMult)
    IN  add_shape(s6,
            Shape("circle", dial_size, <<(<<0, 1>>), (<<0, 1>>)>>, 1,
                  TRUE, TRUE, 30))

InitialWidth == 800
InitialHeight == 600

\* pointer and press positions the window system reports
LoopPoints == {<<400, 300>>, <<500, 300>>, <<232, 132>>, <<200, 300>>}
\* sizes the window is resized to
LoopViewports == {<<800, 600>>, <<1000, 500>>}

Events ==
    {[type |-> "QUIT"], [type |-> "MOUSEMOTION"]}
    \cup {[type |-> "VIDEORESIZE", w |-> v[1], h |-> v[2]] : v \in LoopViewports}
    \cup {[type |-> "KEYDOWN", key |-> k] : k \in {"K_ESCAPE", "K_SPACE"}}
    \cup {[type |-> "MOUSEBUTTONDOWN", button |-> b, pos |-> p] :
              b \in {1, 3}, p \in LoopPoints}

InitLoop ==
    /\ LET safe_scene == create_safe(FALSE, <<1, 1>>)
       IN  /\ all_shapes = safe_scene.all_shapes
           /\ root_shapes = safe_scene.root_shapes
    /\ width = InitialWidth /\ height = InitialHeight
    /\ running = TRUE
    /\ mouse_click_pos = None
    /\ mouse_pos = <<0, 0>>
    /\ pc = "top"
    /\ polled = 0 /\ pressed = <<>>
    /\ calls = <<>> /\ hovered_shape = 0 /\ clicked = <<>>
    /\ error = "none" /\ args = <<>> /\ ret = <<>>

\* a mutant of LoopTop: the click position is not cleared
LoopTopKeepClick ==
    /\ pc = "top" /\ running
    /\ \E p \in LoopPoints : mouse_pos' = p
    /\ polled' = 0 /\ pressed' = <<>>
    /\ pc' = "poll"
    /\ UNCHANGED <<all_shapes, root_shapes, width, height, running, mouse_click_pos,
                   calls, hovered_shape, clicked, error, args, ret>>

\* while running: mouse_click_pos = None; mouse_pos = pygame.mouse.get_pos()
LoopTop ==
    /\ pc = "top" /\ running
    /\ mouse_click_pos' = None
    /\ \E p \in LoopPoints : mouse_pos' = p
    /\ polled' = 0 /\ pressed' = <<>>
    /\ pc' = "poll"
    /\ UNCHANGED <<all_shapes, root_shapes, width, height, running,
                   calls, hovered_shape, clicked, error, args, ret>>

\* one iteration of: for event in pygame.event.get()
HandleEvent ==
    /\ pc = "poll"
    /\ polled < MaxEvents
    /\ polled' = polled + 1
    /\ \E event \in Events :
         IF event.type = "QUIT"
         THEN /\ running' = FALSE
              /\ UNCHANGED <<width, height, mouse_click_pos, pressed>>
         ELSE IF event.type = "VIDEORESIZE"
         THEN /\ width' = event.w /\ height' = event.h
              /\ UNCHANGED <<running, mouse_click_pos, pressed>>
         ELSE IF event.type = "KEYDOWN" /\ event.key = "K_ESCAPE"
         THEN /\ running' = FALSE
              /\ UNCHANGED <<width, height, mouse_click_pos, pressed>>
         ELSE IF event.type = "MOUSEBUTTONDOWN" /\ event.button = 1
         THEN /\ mouse_click_pos' = event.pos
              /\ pressed' = Append(pressed, event.pos)
              /\ UNCHANGED <<width, height, running>>
         ELSE UNCHANGED <<width, height, running, mouse_click_pos, pressed>>
    /\ UNCHANGED <<all_shapes, root_shapes, mouse_pos, pc, calls, hovered_shape,
                   clicked, error, args, ret>>

\* the events are exhausted: safe_scene.draw(screen, (width, height), mouse_pos,
\* mouse_click_pos), then the next iteration
DrawFrame ==
    /\ pc = "poll"
    /\ LET d == SceneManager_draw(all_shapes, <<width, height>>, mouse_pos,
                                  mouse_click_pos)
       IN  /\ calls' = d.calls
           /\ hovered_shape' = d.hovered
           /\ clicked' = d.clicked
           /\ error' = d.error
    /\ pc' = "top"
    /\ UNCHANGED <<all_shapes, root_shapes, width, height, running, mouse_pos,
                   mouse_click_pos, polled, pressed, args, ret>>

\* running is false: pygame.quit(); sys.exit()
Exit ==
    /\ pc = "top" /\ ~running
    /\ pc' = "done"
    /\ UNCHANGED <<all_shapes, root_shapes, width, height, running, mouse_pos,
                   mouse_click_pos, polled, pressed, calls, hovered_shape,
                   clicked, error, args, ret>>

NextLoop == LoopTop \/ HandleEvent \/ DrawFrame \/ Exit

SpecLoop == InitLoop /\ [][NextLoop]_vars

\* C6: the click position is non-empty only when a primary press was polled
\* in the same frame (it is the position of the last one), so a press is
\* never passed to the draw of a later frame, and a frame's notifications
\* do not outnumber the presses polled in it.
C6_ClickOneFrame ==
    /\ mouse_click_pos # None =>
          pressed # <<>> /\ mouse_click_pos = pressed[Len(pressed)]
    /\ (pc = "top" /\ calls # <<>>) =>
          /\ Len(clicked) <= Len(pressed)
          /\ Len(clicked) <= 1

C6_Witness ==
    /\ pc = "top"
    /\ clicked # <<>>
    /\ Len(pressed) = 2
    /\ pressed[1] # pressed[2]

(***************************************************************************)
(* Geometry resolution: a chain of shapes is built and the position of one *)
(* of them is resolved.                                                    *)
(***************************************************************************)
\* size and rel_pos of the built shapes
GeomArgs ==
    { [size |-> <<1, 2>>, rel_pos |-> <<(<<1, 2>>), (<<1, 2>>)>>],
      [size |-> <<3, 8>>, rel_pos |-> <<(<<-3, 8>>), (<<3, 8>>)>>],
      [size |-> <<3, 4>>, rel_pos |-> <<(<<-1, 2>>), (<<0, 1>>)>>],
      [size |-> <<1, 2>>, rel_pos |-> <<(<<5, 8>>), (<<-1, 8>>)>>] }
GeomViewports == {<<8, 6>>, <<5, 8>>}

AddGeomShape ==
    /\ pc = "setup"
    /\ Len(all_shapes) < MaxChain
    /\ \E g \in GeomArgs, parent \in 0..Len(all_shapes) :
         LET scene == add_shape([root_shapes |-> root_shapes,
                                 all_shapes |-> all_shapes],
                                Shape("square", g.size, g.rel_pos, parent,
                                      FALSE, FALSE, 0))
         IN  /\ all_shapes' = scene.all_shapes
             /\ root_shapes' = scene.root_shapes
    /\ UNCHANGED <<width, height, running, mouse_pos, mouse_click_pos, pc, polled,
                   pressed, calls, hovered_shape, clicked, error, args, ret>>

Resolve ==
    /\ pc = "setup"
    /\ \E i \in 1..Len(all_shapes), root_size \in GeomViewports :
         /\ args' = <<i, root_size>>
         /\ ret' = get_absolute_position(all_shapes, i, root_size)
    /\ pc' = "resolved"
    /\ UNCHANGED <<all_shapes, root_shapes, width, height, running, mouse_pos,
                   mouse_click_pos, polled, pressed, calls, hovered_shape,
                   clicked, error>>

NextGeom == AddGeomShape \/ Resolve

SpecGeom == Init /\ [][NextGeom]_vars

\* t is num/den rounded toward minus infinity
IsFloor(t, num, den) == t * den <= num /\ num < (t + 1) * den
\* t is num/den rounded toward zero
IsTrunc(t, num, den) ==
    IF num >= 0 THEN t * den <= num /\ num < (t + 1) * den
                ELSE (t - 1) * den < num /\ num <= t * den

\* the resolved position is base + Round(extent * rel_pos), where base and
\* extent are the parent's position and pixel size, or the origin and the
\* viewport
Resolved(Round(_, _, _)) ==
    LET i == args[1]
        root_size == args[2]
        s == all_shapes[i]
        m == Min(root_size[1], root_size[2])
        base == IF s.parent # 0
                THEN get_absolute_position(all_shapes, s.parent, root_size)
                ELSE <<0, 0>>
        side == CHOOSE t \in 0..m :
                    IsFloor(t, m * all_shapes[s.parent].size[1],
                            all_shapes[s.parent].size[2])
        extent == IF s.parent # 0 THEN <<side, side>> ELSE root_size
    IN  \A c \in {1, 2} :
            Round(ret[c] - base[c], extent[c] * s.rel_pos[c][1], s.rel_pos[c][2])

\* C7 as amended: get_absolute_position adds the product rounded toward
\* zero.
C7_TruncOffset == pc = "resolved" => Resolved(IsTrunc)

\* C7: get_absolute_position adds the product rounded toward minus infinity.
C7_FloorOffset == pc = "resolved" => Resolved(IsFloor)

C7_Witness ==
    /\ pc = "resolved"
    /\ all_shapes[args[1]].parent # 0
    /\ all_shapes[all_shapes[args[1]].parent].parent # 0
    /\ ~Resolved(IsFloor)

(***************************************************************************)
(* The hit test of a square, applied to one center, size and point.        *)
(***************************************************************************)
HitCenters == {<<0, 0>>, <<3, -2>>}

InitHit ==
    /\ all_shapes = <<>> /\ root_shapes = <<>>
    /\ pc = "call"
    /\ width = 8 /\ height = 8 /\ running = TRUE
    /\ mouse_pos = <<0, 0>> /\ mouse_click_pos = None
    /\ polled = 0 /\ pressed = <<>>
    /\ calls = <<>> /\ hovered_shape = 0 /\ clicked = <<>>
    /\ error = "none" /\ ret = <<>>
    /\ \E c \in HitCenters, w \in 0..MaxSide, h \in 0..MaxSide,
          dx \in -MaxSide..MaxSide, dy \in -MaxSide..MaxSide :
         args = [screen_pos |-> c, size |-> <<w, h>>,
                 mouse_pos |-> <<c[1] + dx, c[2] + dy>>]

CheckSquare ==
    /\ pc = "call"
    /\ ret' = check_interaction(
                  Shape("square", <<1, 2>>, <<(<<0, 1>>), (<<0, 1>>)>>, 0,
                        TRUE, FALSE, 0),
                  args.screen_pos, args.size, args.mouse_pos)
    /\ pc' = "returned"
    /\ UNCHANGED <<all_shapes, root_shapes, width, height, running, mouse_pos,
                   mouse_click_pos, polled, pressed, calls, hovered_shape,
                   clicked, error, args>>

NextHit == CheckSquare

SpecHit == InitHit /\ [][NextHit]_vars

HitDx == args.mouse_pos[1] - args.screen_pos[1]
HitDy == args.mouse_pos[2] - args.screen_pos[2]
Abs(x) == IF x >= 0 THEN x ELSE -x

\* C8 as amended: a square is hit exactly at the points with
\* -width/2 <= dx < width/2 and -height/2 <= dy < height/2: the left and top
\* edges are inside, the right and bottom edges are not.
C8_HalfOpenBox ==
    pc = "returned" =>
        (ret <=> /\ -args.size[1] <= 2 * HitDx /\ 2 * HitDx < args.size[1]
                 /\ -args.size[2] <= 2 * HitDy /\ 2 * HitDy < args.size[2])

\* C8: a square is hit exactly at the points with |dx| <= width/2 and
\* |dy| <= height/2, all four edges included.
C8_ClosedBox ==
    pc = "returned" =>
        (ret <=> /\ 2 * Abs(HitDx) <= args.size[1]
                 /\ 2 * Abs(HitDy) <= args.size[2])

C8_Witness ==
    /\ pc = "returned"
    /\ args.size[1] > 0 /\ args.size[2] > 0
    /\ 2 * HitDx = args.size[1]
    /\ 2 * Abs(HitDy) < args.size[2]
    /\ ret = FALSE

====
